---- MODULE Spec2Model ----
(***************************************************************************)
(* A model of the aiperf web backend's orchestration core:                 *)
(*   services/profile_controller.py  (ProfileController)                   *)
(*   services/aiperf_executor.py     (AIPerfExecutor)                      *)
(*   services/metrics_subscriber.py  (MetricsSubscriber)                   *)
(*   services/port_allocator.py      (PortAllocator)                       *)
(*   storage/database.py             (InMemoryDatabase)                    *)
(*                                                                         *)
(* Everything runs on one asyncio event loop.  An action of the model is   *)
(* the code one task executes between two suspension points.  An await of  *)
(* the in-memory database never suspends (its lock is only held across     *)
(* code without awaits, so it is never found locked), nor does put() on an *)
(* unbounded queue.  The real suspension points are: queue.get with its    *)
(* timeout, create_subprocess_exec, asyncio.sleep, process.wait,           *)
(* process.communicate, wait_for(task) and gather.  Task.cancel() is       *)
(* delivered as CancelledError at the suspension point the task is at;     *)
(* CancelledError is not an Exception, so only `except CancelledError`     *)
(* handlers catch it.                                                      *)
(***************************************************************************)
EXTENDS Integers, Sequences, FiniteSets, TLC

\* ---------------------------------------------------------------- bounds
MaxRuns == 2
MaxAllocRuns == 3
MaxAllocCalls == 4
AllocIds == 1..MaxAllocRuns
MaxSubRuns == 2
MaxLoops == 2
MaxMsgs == 2
SubRunIds == 1..MaxSubRuns
MaxExecRuns == 2
MaxStartCalls == 3
MaxBuilds == 2
ExecRunIds == 1..MaxExecRuns
Lanes == {"a", "b"}
RunIds == 1..MaxRuns

\* ------------------------------------------------------- program constants
PORT_POOL_START == 6000
PORT_POOL_END == 6999
PORTS_PER_RUN == 9
METRICS_PORT == 5664

PENDING == "pending"
RUNNING == "running"
COMPLETED == "completed"
FAILED == "failed"
CANCELLED == "cancelled"
ProfileStatus == {PENDING, RUNNING, COMPLETED, FAILED, CANCELLED}
Terminal == {COMPLETED, FAILED, CANCELLED}

NoError == "None"
NoRun == 0
NoPort == 0
NoCall == [op |-> "none", run_id |-> NoRun, base |-> NoPort, reused |-> FALSE]

VARIABLES
  running,        \* ProfileController._running
  profiles,       \* InMemoryDatabase._profiles: run id -> [queue_name, status, error]
  queues,         \* ProfileController._queues: lane -> sequence of run ids
  queue_tasks,    \* ProfileController._queue_tasks: lane -> worker task [pc, run, cancel]
  processes,      \* AIPerfExecutor._processes: tracked run ids, in insertion order
  monitor_tasks,  \* AIPerfExecutor._monitor_tasks: tracked run ids, in insertion order
  proc,           \* the process launched for a run: none, alive, exit0, exit1, gone
  monitor,        \* the _monitor_process task of a run: none, wait, done
  subscriptions,  \* MetricsSubscriber._subscriptions: tracked run ids, in insertion order
  stop_events,    \* MetricsSubscriber._stop_events: run ids with a registered event
  loop,           \* the _subscribe_loop task of a run: none, run, done
  stop_set,       \* whether the asyncio.Event handed to a run's loop is set
  sub_port,       \* the port a run's loop was told to connect to (0: none)
  cleanup,        \* the _cleanup_profile task on_complete created: none, created, wait, done
  stop_pc,        \* where the task running ProfileController.stop() is
  stop_ids,       \* the list stop() is iterating or waiting on; its head is current
  stop_called,    \* history: stop() has been called and start() not since
  terminated,     \* history: run ids whose live process stop_run terminated, until their monitor ends
  started,        \* history: lane -> run ids in the order the lane's worker dequeued them
  allocated_ports,   \* PortAllocator._allocated_ports
  port_assignments,  \* PortAllocator._port_assignments: run id -> base port of its block
  alloc_raised,      \* whether the last allocate_ports call raised RuntimeError
  alloc_calls,       \* number of allocate_ports calls made so far
  last_call,         \* history: the last allocator call, [op, run_id, base, reused];
                     \*   base is the base port it allocated or freed (0: none),
                     \*   reused whether it allocated the block that the call
                     \*   before it, a release, had freed
  loops,          \* MetricsSubscriber alone: every _subscribe_loop task created,
                  \*   in order: [run_id, pc, stop, inbox, dropped, broken];
                  \*   stop is its Event, dropped counts the messages it logged
                  \*   and skipped, broken whether its socket has failed
  sub_task,       \* MetricsSubscriber alone: _subscriptions, run id -> task (0: none)
  sub_event,      \* MetricsSubscriber alone: _stop_events, run id -> the task whose
                  \*   Event is registered (0: none)
  unsub_calls,    \* unsubscribe_from_run calls waiting in wait_for: [run_id, task]
  metrics,        \* InMemoryDatabase._metrics: run id -> sequence of records
  published,      \* number of messages the publisher has sent so far
  origin,         \* history: for each message published, in order, the run id
                  \*   whose process published it
  last_sub,       \* history: the last subscribe_to_run call, [run_id, tracked];
                  \*   tracked whether it found the run id in _subscriptions
  launched,       \* AIPerfExecutor alone: every process create_subprocess_exec
                  \*   returned, in order: [run_id, state, mon]; state is alive,
                  \*   exit0 or exit1, mon its _monitor_process task: wait, done
  exec_process,   \* AIPerfExecutor alone: _processes, run id -> process (0: none)
  exec_monitor,   \* AIPerfExecutor alone: _monitor_tasks, run id -> the process
                  \*   whose monitor task is tracked (0: none)
  start_calls,    \* start_run calls waiting in create_subprocess_exec: run id -> number
  start_count,    \* number of start_run calls made so far
  start_result,   \* history: the start_run call that acted last and how far it
                  \*   got, [run_id, outcome]; outcome is waiting (in
                  \*   create_subprocess_exec), started (returned), rejected
                  \*   (ValueError) or failed (launch error raised again)
  cmd_config,     \* command builder alone: the run configuration, field -> <<>>
                  \*   (absent or None) or <<value>>
  cmd_calls,      \* command builder alone: the (zmq_host, zmq_port) of each
                  \*   _build_aiperf_command call made with cmd_config, in order
  cmd_built       \* command builder alone: the list each of those calls returned

ctrlVars == <<running, queues, queue_tasks, started, stop_called>>
dbVars == <<profiles>>
execVars == <<processes, monitor_tasks, proc, monitor>>
subVars == <<subscriptions, stop_events, loop, stop_set, sub_port, cleanup>>
stopVars == <<stop_pc, stop_ids, terminated>>
allocVars == <<allocated_ports, port_assignments, alloc_raised, alloc_calls,
               last_call>>
msVars == <<loops, sub_task, sub_event, unsub_calls, metrics, published,
            origin, last_sub>>
exVars == <<launched, exec_process, exec_monitor, start_calls, start_count,
            start_result>>
cmdVars == <<cmd_config, cmd_calls, cmd_built>>
vars == <<ctrlVars, dbVars, execVars, subVars, stopVars, allocVars, msVars,
          exVars, cmdVars>>

\* ------------------------------------------------------------- helpers
Range(s) == {s[i] : i \in 1..Len(s)}

Remove(s, x) == SelectSeq(s, LAMBDA y : y # x)

NoTask == [pc |-> "none", run |-> NoRun, cancel |-> FALSE]

\* InMemoryDatabase.update_profile_status: a no-op for an unknown run id; the
\* error text is only overwritten by a truthy error.
UpdateProfileStatus(P, run_id, status, error) ==
  IF run_id \in DOMAIN P
    THEN [P EXCEPT ![run_id].status = status,
                   ![run_id].error = IF error # NoError THEN error ELSE @]
    ELSE P

\* ProfileController._generate_run_id: a fresh id (uuid4); ids are numbered in
\* the order they are generated.
GenerateRunId == Cardinality(DOMAIN profiles) + 1

\* The port _execute_profile passes to the subscriber and the supervisor: the
\* allocator call is commented out and the port is the literal 5664.
ExecutePort(run_id) == METRICS_PORT

\* `while self._running:` at the head of _process_queue's loop.
LoopHead(l) ==
  IF running THEN [pc |-> "get", run |-> NoRun, cancel |-> FALSE]
             ELSE [pc |-> "done", run |-> NoRun, cancel |-> FALSE]

\* MetricsSubscriber.__init__ and InMemoryDatabase.__init__: empty tables.
MsInit ==
  /\ loops = <<>>
  /\ sub_task = [r \in SubRunIds |-> 0]
  /\ sub_event = [r \in SubRunIds |-> 0]
  /\ unsub_calls = {}
  /\ metrics = [r \in SubRunIds |-> <<>>]
  /\ published = 0
  /\ origin = <<>>
  /\ last_sub = [run_id |-> NoRun, tracked |-> FALSE]

\* AIPerfExecutor.__init__: empty tables, nothing launched.
NoResult == [run_id |-> NoRun, outcome |-> "none"]

ExInit ==
  /\ launched = <<>>
  /\ exec_process = [r \in ExecRunIds |-> 0]
  /\ exec_monitor = [r \in ExecRunIds |-> 0]
  /\ start_calls = [r \in ExecRunIds |-> 0]
  /\ start_count = 0
  /\ start_result = NoResult

\* The configuration keys _build_aiperf_command reads, in the order it reads
\* them, and a configuration without any of them.
ConfigFields == <<"model", "url", "endpoint_type", "endpoint", "tokenizer",
                  "request_count", "concurrency", "request_rate">>

NoConfig == [f \in Range(ConfigFields) |-> <<>>]

CmdInit ==
  /\ cmd_config = NoConfig
  /\ cmd_calls = <<>>
  /\ cmd_built = <<>>

\* ---------------------------------------------------------------- Init
Init ==
  /\ running = FALSE
  /\ profiles = <<>>
  /\ queues = [l \in Lanes |-> <<>>]
  /\ queue_tasks = [l \in Lanes |-> NoTask]
  /\ processes = <<>>
  /\ monitor_tasks = <<>>
  /\ proc = [r \in RunIds |-> "none"]
  /\ monitor = [r \in RunIds |-> "none"]
  /\ subscriptions = <<>>
  /\ stop_events = {}
  /\ loop = [r \in RunIds |-> "none"]
  /\ stop_set = [r \in RunIds |-> FALSE]
  /\ sub_port = [r \in RunIds |-> 0]
  /\ cleanup = [r \in RunIds |-> "none"]
  /\ stop_pc = "idle"
  /\ stop_ids = <<>>
  /\ stop_called = FALSE
  /\ terminated = {}
  /\ started = [l \in Lanes |-> <<>>]
  /\ allocated_ports = {}
  /\ port_assignments = <<>>
  /\ alloc_raised = FALSE
  /\ alloc_calls = 0
  /\ last_call = NoCall
  /\ MsInit
  /\ ExInit
  /\ CmdInit

\* ------------------------------------------------- ProfileController
\* start(): a no-op when already running.  The lifecycle owner calls start()
\* and stop() one after the other, never start() while stop() is in progress.
Start ==
  /\ ~running
  /\ stop_pc = "idle"
  /\ running' = TRUE
  /\ stop_called' = FALSE
  /\ UNCHANGED <<queues, queue_tasks, started, dbVars, execVars, subVars,
                 stopVars, allocVars, msVars, exVars, cmdVars>>

\* submit_profile(queue_name, config): no suspension between creating the
\* record, the put and the worker check, so the three are one step.
SubmitLIFO(l) ==
  LET id == GenerateRunId IN
  /\ id <= MaxRuns
  /\ profiles' = profiles @@
       (id :> [queue_name |-> l, status |-> PENDING, error |-> NoError])
  /\ queues' = [queues EXCEPT ![l] = <<id>> \o @]
  /\ queue_tasks' = [queue_tasks EXCEPT ![l] =
       IF @.pc = "none" THEN [pc |-> "created", run |-> NoRun, cancel |-> FALSE]
                        ELSE @]
  /\ UNCHANGED <<running, started, stop_called, execVars, subVars, stopVars,
                 allocVars, msVars, exVars, cmdVars>>

Submit_ReuseId(l) ==
  LET id == IF profiles = <<>> THEN 1 ELSE Cardinality(DOMAIN profiles) IN
  /\ Len(queues[l]) <= MaxRuns
  /\ profiles' = [r \in DOMAIN profiles \cup {id} |->
       IF r = id THEN [queue_name |-> l, status |-> PENDING, error |-> NoError]
                 ELSE profiles[r]]
  /\ queues' = [queues EXCEPT ![l] = Append(@, id)]
  /\ queue_tasks' = [queue_tasks EXCEPT ![l] =
       IF @.pc = "none" THEN [pc |-> "created", run |-> NoRun, cancel |-> FALSE]
                        ELSE @]
  /\ UNCHANGED <<running, started, stop_called, execVars, subVars, stopVars,
                 allocVars, msVars, exVars, cmdVars>>

Submit_RespawnsWorker(l) ==
  LET id == GenerateRunId IN
  /\ id <= MaxRuns
  /\ profiles' = profiles @@
       (id :> [queue_name |-> l, status |-> PENDING, error |-> NoError])
  /\ queues' = [queues EXCEPT ![l] = Append(@, id)]
  /\ queue_tasks' = [queue_tasks EXCEPT ![l] =
       IF @.pc \in {"none", "done"}
         THEN [pc |-> "created", run |-> NoRun, cancel |-> FALSE]
         ELSE @]
  /\ UNCHANGED <<running, started, stop_called, execVars, subVars, stopVars,
                 allocVars, msVars, exVars, cmdVars>>

Submit(l) ==
  LET id == GenerateRunId IN
  /\ id <= MaxRuns
  /\ profiles' = profiles @@
       (id :> [queue_name |-> l, status |-> PENDING, error |-> NoError])
  /\ queues' = [queues EXCEPT ![l] = Append(@, id)]
  /\ queue_tasks' = [queue_tasks EXCEPT ![l] =
       IF @.pc = "none" THEN [pc |-> "created", run |-> NoRun, cancel |-> FALSE]
                        ELSE @]
  /\ UNCHANGED <<running, started, stop_called, execVars, subVars, stopVars,
                 allocVars, msVars, exVars, cmdVars>>

\* _process_queue, first step of the task: `while self._running` and then the
\* wait on queue.get.
WorkerStart(l) ==
  /\ queue_tasks[l].pc = "created"
  /\ ~queue_tasks[l].cancel
  /\ queue_tasks' = [queue_tasks EXCEPT ![l] = LoopHead(l)]
  /\ UNCHANGED <<running, queues, started, stop_called, dbVars, execVars,
                 subVars, stopVars, allocVars, msVars, exVars, cmdVars>>

\* queue.get returns run_id; _execute_profile runs up to the await of
\* create_subprocess_exec: get_profile, subscribe_to_run (synchronous), the
\* `run_id in self._processes` check of start_run.
WorkerGet_Serial(l) ==
  /\ queue_tasks[l].pc = "get"
  /\ ~queue_tasks[l].cancel
  /\ queues[l] # <<>>
  /\ \A k \in Lanes \ {l} : queue_tasks[k].run = NoRun
  /\ LET run_id == Head(queues[l]) IN
     /\ queues' = [queues EXCEPT ![l] = Tail(@)]
     /\ started' = [started EXCEPT ![l] = Append(@, run_id)]
     /\ stop_events' = stop_events \cup {run_id}
     /\ loop' = [loop EXCEPT ![run_id] = "run"]
     /\ stop_set' = [stop_set EXCEPT ![run_id] = FALSE]
     /\ sub_port' = [sub_port EXCEPT ![run_id] = ExecutePort(run_id)]
     /\ subscriptions' = Append(subscriptions, run_id)
     /\ queue_tasks' = [queue_tasks EXCEPT ![l] =
          [pc |-> "launch", run |-> run_id, cancel |-> FALSE]]
  /\ UNCHANGED <<running, stop_called, cleanup, dbVars, execVars, stopVars,
                 allocVars, msVars, exVars, cmdVars>>

WorkerGet(l) ==
  /\ queue_tasks[l].pc = "get"
  /\ ~queue_tasks[l].cancel
  /\ queues[l] # <<>>
  /\ LET run_id == Head(queues[l]) IN
     /\ queues' = [queues EXCEPT ![l] = Tail(@)]
     /\ started' = [started EXCEPT ![l] = Append(@, run_id)]
     /\ IF run_id \notin DOMAIN profiles
          THEN \* get_profile returned None: logged, _execute_profile returns
               /\ queue_tasks' = [queue_tasks EXCEPT ![l] = LoopHead(l)]
               /\ UNCHANGED <<stop_events, loop, stop_set, sub_port, subscriptions>>
          ELSE /\ IF run_id \in Range(subscriptions)
                    THEN UNCHANGED <<stop_events, loop, stop_set, sub_port,
                                     subscriptions>>
                    ELSE /\ stop_events' = stop_events \cup {run_id}
                         /\ loop' = [loop EXCEPT ![run_id] = "run"]
                         /\ stop_set' = [stop_set EXCEPT ![run_id] = FALSE]
                         /\ sub_port' = [sub_port EXCEPT ![run_id] =
                                           ExecutePort(run_id)]
                         /\ subscriptions' = Append(subscriptions, run_id)
               /\ queue_tasks' = [queue_tasks EXCEPT ![l] =
                    [pc |-> "launch", run |-> run_id, cancel |-> FALSE]]
  /\ UNCHANGED <<running, stop_called, cleanup, dbVars, execVars, stopVars,
                 allocVars, msVars, exVars, cmdVars>>

WorkerLaunchOk_IgnoresCancel(l) ==
  /\ queue_tasks[l].pc = "launch"
  /\ LET run_id == queue_tasks[l].run IN
     /\ proc' = [proc EXCEPT ![run_id] = "alive"]
     /\ processes' = Append(processes, run_id)
     /\ profiles' = UpdateProfileStatus(profiles, run_id, RUNNING, NoError)
     /\ monitor' = [monitor EXCEPT ![run_id] = "wait"]
     /\ monitor_tasks' = Append(monitor_tasks, run_id)
     /\ queue_tasks' = [queue_tasks EXCEPT ![l].pc = "poll"]
  /\ UNCHANGED <<running, queues, started, stop_called, subVars, stopVars,
                 allocVars, msVars, exVars, cmdVars>>

\* create_subprocess_exec returned a process: start_run tracks it, stores
\* RUNNING and creates the monitor task; _execute_profile then reads the status
\* (RUNNING, the monitor has not run yet) and sleeps for the first time.
WorkerLaunchOk(l) ==
  /\ queue_tasks[l].pc = "launch"
  /\ ~queue_tasks[l].cancel
  /\ LET run_id == queue_tasks[l].run IN
     /\ proc' = [proc EXCEPT ![run_id] = "alive"]
     /\ processes' = Append(processes, run_id)
     /\ profiles' = UpdateProfileStatus(profiles, run_id, RUNNING, NoError)
     /\ monitor' = [monitor EXCEPT ![run_id] = "wait"]
     /\ monitor_tasks' = Append(monitor_tasks, run_id)
     /\ queue_tasks' = [queue_tasks EXCEPT ![l].pc = "poll"]
  /\ UNCHANGED <<running, queues, started, stop_called, subVars, stopVars,
                 allocVars, msVars, exVars, cmdVars>>

\* _cleanup_profile as the worker calls it from its exception handler:
\* unsubscribe_from_run up to its wait_for(task), or to its end when the run
\* has no tracked subscription.
WorkerCleanupBegin(l, run_id) ==
  IF run_id \in Range(subscriptions)
    THEN /\ stop_set' = [stop_set EXCEPT ![run_id] =
                           IF run_id \in stop_events THEN TRUE ELSE @]
         /\ subscriptions' = Remove(subscriptions, run_id)
         /\ queue_tasks' = [queue_tasks EXCEPT ![l].pc = "unsub"]
    ELSE /\ queue_tasks' = [queue_tasks EXCEPT ![l] = LoopHead(l)]
         /\ UNCHANGED <<stop_set, subscriptions>>

WorkerLaunchFail_NoCleanup(l) ==
  /\ queue_tasks[l].pc = "launch"
  /\ ~queue_tasks[l].cancel
  /\ LET run_id == queue_tasks[l].run IN
     /\ profiles' = UpdateProfileStatus(
                      UpdateProfileStatus(profiles, run_id, FAILED, "launch error"),
                      run_id, FAILED, "launch error")
     /\ queue_tasks' = [queue_tasks EXCEPT ![l] = LoopHead(l)]
     /\ UNCHANGED <<stop_set, subscriptions>>
  /\ UNCHANGED <<running, queues, started, stop_called, stop_events, loop,
                 sub_port, cleanup, execVars, stopVars, allocVars, msVars, exVars, cmdVars>>

WorkerLaunchFail_EndsWorker(l) ==
  /\ queue_tasks[l].pc = "launch"
  /\ ~queue_tasks[l].cancel
  /\ LET run_id == queue_tasks[l].run IN
     /\ profiles' = UpdateProfileStatus(profiles, run_id, FAILED, "launch error")
     /\ queue_tasks' = [queue_tasks EXCEPT ![l] =
          [pc |-> "done", run |-> NoRun, cancel |-> FALSE]]
  /\ UNCHANGED <<running, queues, started, stop_called, subVars, execVars,
                 stopVars, allocVars, msVars, exVars, cmdVars>>

\* create_subprocess_exec raised: start_run stores FAILED with the error text
\* and re-raises; _execute_profile's handler stores FAILED again and awaits
\* _cleanup_profile.
WorkerLaunchFail(l) ==
  /\ queue_tasks[l].pc = "launch"
  /\ ~queue_tasks[l].cancel
  /\ LET run_id == queue_tasks[l].run IN
     /\ profiles' = UpdateProfileStatus(
                      UpdateProfileStatus(profiles, run_id, FAILED, "launch error"),
                      run_id, FAILED, "launch error")
     /\ WorkerCleanupBegin(l, run_id)
  /\ UNCHANGED <<running, queues, started, stop_called, stop_events, loop,
                 sub_port, cleanup, execVars, stopVars, allocVars, msVars, exVars, cmdVars>>

\* The polling loop of _execute_profile wakes from sleep(1.0): on a terminal
\* status it returns, the worker calls task_done and goes back to the loop
\* head; otherwise it sleeps again.
WorkerPoll_NoWait(l) ==
  /\ queue_tasks[l].pc = "poll"
  /\ ~queue_tasks[l].cancel
  /\ queue_tasks' = [queue_tasks EXCEPT ![l] = LoopHead(l)]
  /\ UNCHANGED <<running, queues, started, stop_called, dbVars, execVars,
                 subVars, stopVars, allocVars, msVars, exVars, cmdVars>>

WorkerPoll(l) ==
  /\ queue_tasks[l].pc = "poll"
  /\ ~queue_tasks[l].cancel
  /\ LET run_id == queue_tasks[l].run IN
     /\ run_id \in DOMAIN profiles
     /\ IF profiles[run_id].status \in Terminal
          THEN queue_tasks' = [queue_tasks EXCEPT ![l] = LoopHead(l)]
          ELSE UNCHANGED queue_tasks
  /\ UNCHANGED <<running, queues, started, stop_called, dbVars, execVars,
                 subVars, stopVars, allocVars, msVars, exVars, cmdVars>>

\* The worker's wait_for(task, 5.0) in unsubscribe_from_run ends: the loop has
\* exited, or the timeout cancelled it (wait_for returns only once the task it
\* cancelled has finished).  The stop event is then unregistered.
WorkerUnsubEnd(l) ==
  /\ queue_tasks[l].pc = "unsub"
  /\ ~queue_tasks[l].cancel
  /\ LET run_id == queue_tasks[l].run IN
     /\ loop' = [loop EXCEPT ![run_id] = "done"]
     /\ stop_events' = stop_events \ {run_id}
     /\ queue_tasks' = [queue_tasks EXCEPT ![l] = LoopHead(l)]
  /\ UNCHANGED <<running, queues, started, stop_called, subscriptions,
                 stop_set, sub_port, cleanup, dbVars, execVars, stopVars,
                 allocVars, msVars, exVars, cmdVars>>

WorkerCancelled_OnlyAtGet(l) ==
  /\ queue_tasks[l].cancel
  /\ queue_tasks[l].pc \in {"created", "get"}
  /\ queue_tasks' = [queue_tasks EXCEPT ![l] =
       [pc |-> "done", run |-> NoRun, cancel |-> FALSE]]
  /\ UNCHANGED <<running, queues, started, stop_called, subVars, dbVars,
                 execVars, stopVars, allocVars, msVars, exVars, cmdVars>>

\* The worker receives the CancelledError stop() sent it.  It passes every
\* `except Exception` and ends the task at `except asyncio.CancelledError:
\* break`.  At queue.get the item stays queued; at create_subprocess_exec no
\* process is kept and the run's status is not touched; in the polling loop
\* the process and its monitor live on; at wait_for(task) the subscription
\* loop is cancelled with the wait and its stop event stays registered.
WorkerCancelled(l) ==
  /\ queue_tasks[l].cancel
  /\ queue_tasks[l].pc \in {"created", "get", "launch", "poll", "unsub"}
  /\ loop' = IF queue_tasks[l].pc = "unsub"
               THEN [loop EXCEPT ![queue_tasks[l].run] = "done"]
               ELSE loop
  /\ queue_tasks' = [queue_tasks EXCEPT ![l] =
       [pc |-> "done", run |-> NoRun, cancel |-> FALSE]]
  /\ UNCHANGED <<running, queues, started, stop_called, subscriptions,
                 stop_events, stop_set, sub_port, cleanup, dbVars, execVars,
                 stopVars, allocVars, msVars, exVars, cmdVars>>

\* ---------------------------------------------------- the external process
\* A launched process exits, by itself or after terminate()/kill(), with exit
\* code 0 or with another code.
ProcExit(run_id, code) ==
  /\ proc[run_id] = "alive"
  /\ proc' = [proc EXCEPT ![run_id] = code]
  /\ UNCHANGED <<processes, monitor_tasks, monitor, ctrlVars, dbVars, subVars,
                 stopVars, allocVars, msVars, exVars, cmdVars>>

Exited(run_id) == proc[run_id] \in {"exit0", "exit1", "gone"}

\* ---------------------------------------------------- AIPerfExecutor
\* The `finally` of _monitor_process; the task held the last use of the
\* Process object and its exit code.
MonitorFinally(run_id) ==
  /\ terminated' = terminated \ {run_id}
  /\ processes' = Remove(processes, run_id)
  /\ monitor_tasks' = Remove(monitor_tasks, run_id)
  /\ monitor' = [monitor EXCEPT ![run_id] = "done"]
  /\ proc' = [proc EXCEPT ![run_id] = "gone"]

\* process.wait() and communicate() returned (nothing of the state changes
\* between the two): the status is stored from the exit code, the completion
\* callback creates the _cleanup_profile task, and the run is untracked.
MonitorFinish(run_id) ==
  /\ monitor[run_id] = "wait"
  /\ Exited(run_id)
  /\ profiles' = IF proc[run_id] = "exit0"
                   THEN UpdateProfileStatus(profiles, run_id, COMPLETED, NoError)
                   ELSE UpdateProfileStatus(profiles, run_id, FAILED, "stderr")
  /\ cleanup' = [cleanup EXCEPT ![run_id] = "created"]
  /\ MonitorFinally(run_id)
  /\ UNCHANGED <<subscriptions, stop_events, loop, stop_set, sub_port,
                 stop_pc, stop_ids, ctrlVars, allocVars, msVars, exVars, cmdVars>>

\* communicate() raised, or decoding the captured output for the log lines
\* raised (bytes that are not UTF-8): the handler stores FAILED with the
\* exception text, whatever the exit code; the completion callback is not
\* reached.
MonitorError(run_id) ==
  /\ monitor[run_id] = "wait"
  /\ Exited(run_id)
  /\ profiles' = UpdateProfileStatus(profiles, run_id, FAILED, "monitor error")
  /\ MonitorFinally(run_id)
  /\ UNCHANGED <<stop_pc, stop_ids, ctrlVars, subVars, allocVars, msVars, exVars, cmdVars>>

\* ------------------------------------------ the cleanup task of on_complete
\* _cleanup_profile(run_id) as a task of its own: unsubscribe_from_run up to
\* wait_for(task), or all of it when the run has no tracked subscription.
CleanupStart(run_id) ==
  /\ cleanup[run_id] = "created"
  /\ IF run_id \in Range(subscriptions)
       THEN /\ stop_set' = [stop_set EXCEPT ![run_id] =
                              IF run_id \in stop_events THEN TRUE ELSE @]
            /\ subscriptions' = Remove(subscriptions, run_id)
            /\ cleanup' = [cleanup EXCEPT ![run_id] = "wait"]
       ELSE /\ cleanup' = [cleanup EXCEPT ![run_id] = "done"]
            /\ UNCHANGED <<stop_set, subscriptions>>
  /\ UNCHANGED <<stop_events, loop, sub_port, ctrlVars, dbVars, execVars,
                 stopVars, allocVars, msVars, exVars, cmdVars>>

\* wait_for(task, 5.0) ends (loop exited, or cancelled on timeout); the stop
\* event is unregistered.
CleanupEnd(run_id) ==
  /\ cleanup[run_id] = "wait"
  /\ loop' = [loop EXCEPT ![run_id] = "done"]
  /\ stop_events' = stop_events \ {run_id}
  /\ cleanup' = [cleanup EXCEPT ![run_id] = "done"]
  /\ UNCHANGED <<subscriptions, stop_set, sub_port, ctrlVars, dbVars, execVars,
                 stopVars, allocVars, msVars, exVars, cmdVars>>

\* ---------------------------------------------------- MetricsSubscriber
\* The loop task is "run" from its creation to its end: setting up and
\* connecting the socket changes nothing other tasks read.  Creating or
\* connecting the socket raised: the outer handler logs and the task ends
\* through `finally`.  (How long the task takes to reach connect() is not
\* bounded, so the step is enabled for as long as the task runs.)
LoopFatal(run_id) ==
  /\ loop[run_id] = "run"
  /\ loop' = [loop EXCEPT ![run_id] = "done"]
  /\ UNCHANGED <<subscriptions, stop_events, stop_set, sub_port, cleanup,
                 ctrlVars, dbVars, execVars, stopVars, allocVars, msVars, exVars, cmdVars>>

\* `while not stop_event.is_set()` finds the event set: the loop ends.
LoopExit(run_id) ==
  /\ loop[run_id] = "run"
  /\ stop_set[run_id]
  /\ loop' = [loop EXCEPT ![run_id] = "done"]
  /\ UNCHANGED <<subscriptions, stop_events, stop_set, sub_port, cleanup,
                 ctrlVars, dbVars, execVars, stopVars, allocVars, msVars, exVars, cmdVars>>

\* ------------------------------------------- ProfileController.stop()
Live(t) == t.pc \in {"created", "get", "launch", "poll", "unsub"}

\* stop() up to its first suspension: _running is cleared and every worker
\* task is cancelled.  With no worker task at all, gather is skipped, the
\* executor and the subscriber hold nothing, and stop() returns at once.
StopCall ==
  /\ running
  /\ stop_pc = "idle"
  /\ running' = FALSE
  /\ stop_called' = TRUE
  /\ queue_tasks' = [l \in Lanes |->
       IF Live(queue_tasks[l]) THEN [queue_tasks[l] EXCEPT !.cancel = TRUE]
                               ELSE queue_tasks[l]]
  /\ stop_pc' = IF \E l \in Lanes : queue_tasks[l].pc # "none"
                  THEN "gather" ELSE "idle"
  /\ UNCHANGED <<queues, started, stop_ids, terminated, dbVars, execVars,
                 subVars, allocVars, msVars, exVars, cmdVars>>

\* stop_all() from the point where it is to handle the run ids `ids`, up to
\* its next suspension: unsubscribe_from_run returns at once for a run that is
\* not tracked; for the first tracked one it sets the stop event, pops the
\* task and waits for it.  With no id left stop_all() and stop() return.
EnterStopAll(ids) ==
  LET rest == SelectSeq(ids, LAMBDA r : r \in Range(subscriptions)) IN
  IF rest = <<>>
    THEN /\ stop_pc' = "idle"
         /\ stop_ids' = <<>>
         /\ UNCHANGED <<terminated, stop_set, subscriptions>>
    ELSE /\ stop_pc' = "unsub_wait"
         /\ stop_ids' = rest
         /\ UNCHANGED terminated
         /\ stop_set' = [stop_set EXCEPT ![Head(rest)] =
                           IF Head(rest) \in stop_events THEN TRUE ELSE @]
         /\ subscriptions' = Remove(subscriptions, Head(rest))

\* cleanup() after its loop over the run ids: gather on the monitor tasks
\* still tracked, or, with none tracked, on to subscriber.stop_all().
AfterStopRuns ==
  IF monitor_tasks # <<>>
    THEN /\ stop_pc' = "monitors"
         /\ stop_ids' = monitor_tasks
         /\ UNCHANGED <<terminated, stop_set, subscriptions>>
    ELSE EnterStopAll(subscriptions)

\* stop_run returns without suspending for a run that is no longer tracked
\* (warning) and for a tracked run whose process has exited and been reaped
\* (terminate() raises ProcessLookupError, which the handler logs).
StopRunReturnsAtOnce(run_id) ==
  \/ run_id \notin Range(processes)
  \/ Exited(run_id)

\* cleanup() from the point where it is to stop the runs `ids`, up to its next
\* suspension: the first stop_run that terminates a process and waits for its
\* exit (after 10 s, kill() and the same wait).
EnterStopRuns(ids) ==
  \E k \in 0..Len(ids) :
    /\ \A i \in 1..k : StopRunReturnsAtOnce(ids[i])
    /\ IF k = Len(ids)
         THEN AfterStopRuns
         ELSE /\ ids[k + 1] \in Range(processes)
              /\ stop_pc' = "stop_wait"
              /\ stop_ids' = SubSeq(ids, k + 1, Len(ids))
              /\ terminated' = IF proc[ids[k + 1]] = "alive"
                                 THEN terminated \cup {ids[k + 1]}
                                 ELSE terminated
              /\ UNCHANGED <<stop_set, subscriptions>>

StopGathered_NoCleanup ==
  /\ stop_pc = "gather"
  /\ \A l \in Lanes : ~queue_tasks[l].cancel
  /\ EnterStopAll(subscriptions)
  /\ UNCHANGED <<stop_events, loop, sub_port, cleanup, ctrlVars, dbVars,
                 execVars, allocVars, msVars, exVars, cmdVars>>

\* gather(*self._queue_tasks.values()) returns: every cancelled worker has
\* ended.  executor.cleanup() takes its list of tracked run ids.
StopGathered ==
  /\ stop_pc = "gather"
  /\ \A l \in Lanes : ~queue_tasks[l].cancel
  /\ EnterStopRuns(processes)
  /\ UNCHANGED <<stop_events, loop, sub_port, cleanup, ctrlVars, dbVars,
                 execVars, allocVars, msVars, exVars, cmdVars>>

\* stop_run: the process has exited; CANCELLED is stored, and cleanup() goes
\* on with the next run id.
StopRunEnd ==
  /\ stop_pc = "stop_wait"
  /\ Exited(Head(stop_ids))
  /\ profiles' = UpdateProfileStatus(profiles, Head(stop_ids), CANCELLED, NoError)
  /\ EnterStopRuns(Tail(stop_ids))
  /\ UNCHANGED <<stop_events, loop, sub_port, cleanup, ctrlVars, execVars,
                 allocVars, msVars, exVars, cmdVars>>

StopMonitorsGathered_NoWait ==
  /\ stop_pc = "monitors"
  /\ EnterStopAll(subscriptions)
  /\ UNCHANGED <<stop_events, loop, sub_port, cleanup, ctrlVars, dbVars,
                 execVars, allocVars, msVars, exVars, cmdVars>>

\* gather(*self._monitor_tasks.values()) returns; stop_all() takes its list
\* of subscribed run ids.
StopMonitorsGathered ==
  /\ stop_pc = "monitors"
  /\ \A r \in Range(stop_ids) : monitor[r] = "done"
  /\ EnterStopAll(subscriptions)
  /\ UNCHANGED <<stop_events, loop, sub_port, cleanup, ctrlVars, dbVars,
                 execVars, allocVars, msVars, exVars, cmdVars>>

\* stop_all(): wait_for(task, 5.0) ends (loop exited, or cancelled on
\* timeout); the stop event is unregistered, and stop_all() goes on with the
\* next run id.
StopUnsubEnd ==
  /\ stop_pc = "unsub_wait"
  /\ loop' = [loop EXCEPT ![Head(stop_ids)] = "done"]
  /\ stop_events' = stop_events \ {Head(stop_ids)}
  /\ EnterStopAll(Tail(stop_ids))
  /\ UNCHANGED <<sub_port, cleanup, ctrlVars, dbVars, execVars, allocVars, msVars, exVars, cmdVars>>

Stop ==
  \/ StopCall
  \/ StopGathered
  \/ StopRunEnd
  \/ StopMonitorsGathered
  \/ StopUnsubEnd

\* ---------------------------------------------------- PortAllocator
\* The ports of the block at base_port: the nine fields of ZMQPortAllocation
\* are base_port .. base_port + 8.
Block(base_port) == base_port..(base_port + PORTS_PER_RUN - 1)

Min(S) == CHOOSE x \in S : \A y \in S : x <= y

\* _find_available_block: the first base in
\* range(PORT_POOL_START, PORT_POOL_END - PORTS_PER_RUN) whose PORTS_PER_RUN
\* ports are all unallocated; None when there is none.
FindAvailableBlock_Any(allocated) ==
  LET free == {b \in PORT_POOL_START..(PORT_POOL_END - PORTS_PER_RUN - 1) :
                 \E port \in Block(b) : port \notin allocated}
  IN IF free = {} THEN NoPort ELSE Min(free)

FindAvailableBlock_Last(allocated) ==
  LET free == {b \in PORT_POOL_START..(PORT_POOL_END - PORTS_PER_RUN - 1) :
                 \A port \in Block(b) : port \notin allocated}
  IN IF free = {} THEN NoPort ELSE CHOOSE b \in free : \A c \in free : c <= b

FindAvailableBlock(allocated) ==
  LET free == {b \in PORT_POOL_START..(PORT_POOL_END - PORTS_PER_RUN - 1) :
                 \A port \in Block(b) : port \notin allocated}
  IN IF free = {} THEN NoPort ELSE Min(free)

\* allocate_ports(run_id).  The body under the lock has no await, so the
\* call is one step whatever other tasks do.
AllocatePorts(run_id) ==
  /\ alloc_calls < MaxAllocCalls
  /\ alloc_calls' = alloc_calls + 1
  /\ LET base_port == FindAvailableBlock(allocated_ports) IN
     /\ last_call' = [op |-> "allocate", run_id |-> run_id, base |-> base_port,
                      reused |-> /\ base_port # NoPort
                                 /\ last_call.op = "release"
                                 /\ last_call.base = base_port]
     /\ IF base_port = NoPort
       THEN /\ alloc_raised' = TRUE
            /\ UNCHANGED <<allocated_ports, port_assignments>>
       ELSE /\ alloc_raised' = FALSE
            /\ allocated_ports' = allocated_ports \cup Block(base_port)
            /\ port_assignments' =
                 [r \in DOMAIN port_assignments \cup {run_id} |->
                    IF r = run_id THEN base_port ELSE port_assignments[r]]
  /\ UNCHANGED <<ctrlVars, dbVars, execVars, subVars, stopVars, msVars, exVars, cmdVars>>

\* release_ports(run_id): a no-op for an unknown run id.
ReleasePorts_KeepMapping(run_id) ==
  /\ IF run_id \notin DOMAIN port_assignments
       THEN /\ last_call' = [op |-> "release", run_id |-> run_id,
                             base |-> NoPort, reused |-> FALSE]
            /\ UNCHANGED <<allocated_ports, port_assignments>>
       ELSE /\ last_call' = [op |-> "release", run_id |-> run_id,
                             base |-> port_assignments[run_id], reused |-> FALSE]
            /\ allocated_ports' = allocated_ports \ Block(port_assignments[run_id])
            /\ UNCHANGED port_assignments
  /\ UNCHANGED <<alloc_raised, alloc_calls, ctrlVars, dbVars, execVars, subVars,
                 stopVars, msVars, exVars, cmdVars>>

ReleasePorts(run_id) ==
  /\ IF run_id \notin DOMAIN port_assignments
       THEN /\ last_call' = [op |-> "release", run_id |-> run_id,
                             base |-> NoPort, reused |-> FALSE]
            /\ UNCHANGED <<allocated_ports, port_assignments>>
       ELSE /\ last_call' = [op |-> "release", run_id |-> run_id,
                             base |-> port_assignments[run_id], reused |-> FALSE]
            /\ allocated_ports' = allocated_ports \ Block(port_assignments[run_id])
            /\ port_assignments' =
                 [r \in DOMAIN port_assignments \ {run_id} |-> port_assignments[r]]
  /\ UNCHANGED <<alloc_raised, alloc_calls, ctrlVars, dbVars, execVars, subVars,
                 stopVars, msVars, exVars, cmdVars>>

\* The allocator on its own.  It starts empty, or as it is after allocate_ports
\* has served so many other runs that only MaxAllocRuns blocks' worth of ports
\* are left (first fit gave those runs the blocks from PORT_POOL_START up).
PoolBlocks == (PORT_POOL_END - PORT_POOL_START) \div PORTS_PER_RUN

Prefills == {0, PoolBlocks - MaxAllocRuns}

OtherIds(n) == (MaxAllocRuns + 1)..(MaxAllocRuns + n)

InitAlloc ==
  /\ running = FALSE
  /\ profiles = <<>>
  /\ queues = [l \in Lanes |-> <<>>]
  /\ queue_tasks = [l \in Lanes |-> NoTask]
  /\ processes = <<>>
  /\ monitor_tasks = <<>>
  /\ proc = [r \in RunIds |-> "none"]
  /\ monitor = [r \in RunIds |-> "none"]
  /\ subscriptions = <<>>
  /\ stop_events = {}
  /\ loop = [r \in RunIds |-> "none"]
  /\ stop_set = [r \in RunIds |-> FALSE]
  /\ sub_port = [r \in RunIds |-> 0]
  /\ cleanup = [r \in RunIds |-> "none"]
  /\ stop_pc = "idle"
  /\ stop_ids = <<>>
  /\ stop_called = FALSE
  /\ terminated = {}
  /\ started = [l \in Lanes |-> <<>>]
  /\ alloc_raised = FALSE
  /\ alloc_calls = 0
  /\ last_call = NoCall
  /\ MsInit
  /\ ExInit
  /\ CmdInit
  /\ \E n \in Prefills :
       /\ port_assignments =
            [r \in OtherIds(n) |->
               PORT_POOL_START + PORTS_PER_RUN * (r - MaxAllocRuns - 1)]
       /\ allocated_ports =
            PORT_POOL_START..(PORT_POOL_START + PORTS_PER_RUN * n - 1)

NextAlloc ==
  \/ \E r \in AllocIds : AllocatePorts(r)
  \/ \E r \in AllocIds : ReleasePorts(r)

SpecAlloc == InitAlloc /\ [][NextAlloc]_vars

\* ------------------------------------------- MetricsSubscriber on its own
\* The subscriber and the store as any caller may drive them: subscribe and
\* unsubscribe calls for a run id in any order and overlap, with every loop
\* task and its Event kept apart.  A publisher sends messages; every connected
\* SUB socket gets its own copy of each.
mainVars == <<ctrlVars, dbVars, execVars, subVars, stopVars, allocVars, exVars, cmdVars>>

MessageKinds == {"ok", "bad_json", "bad_parts"}

LoopIds == 1..Len(loops)

\* `while not stop_event.is_set()`: the task goes on to recv_multipart, or
\* leaves the loop and ends through `finally` (socket closed, queued messages
\* dropped).
WhileHead(task) ==
  IF task.stop THEN [task EXCEPT !.pc = "done", !.inbox = <<>>]
               ELSE [task EXCEPT !.pc = "recv"]

\* subscribe_to_run(run_id): a warning and nothing else when run_id is in
\* _subscriptions; otherwise a new Event is registered and a new loop task
\* created and tracked.
SubscribeToRun_Always(run_id) ==
  /\ Len(loops) < MaxLoops
  /\ last_sub' = [run_id |-> run_id, tracked |-> sub_task[run_id] # 0]
  /\ loops' = Append(loops, [run_id |-> run_id, pc |-> "created",
                             stop |-> FALSE, inbox |-> <<>>, dropped |-> 0,
                             broken |-> FALSE])
  /\ sub_event' = [sub_event EXCEPT ![run_id] = Len(loops) + 1]
  /\ sub_task' = [sub_task EXCEPT ![run_id] = Len(loops) + 1]
  /\ UNCHANGED <<unsub_calls, metrics, published, origin, mainVars>>

SubscribeToRun(run_id) ==
  /\ Len(loops) < MaxLoops
  /\ last_sub' = [run_id |-> run_id, tracked |-> sub_task[run_id] # 0]
  /\ IF sub_task[run_id] # 0
       THEN UNCHANGED <<loops, sub_task, sub_event>>
       ELSE /\ loops' = Append(loops, [run_id |-> run_id, pc |-> "created",
                                        stop |-> FALSE, inbox |-> <<>>,
                                        dropped |-> 0, broken |-> FALSE])
            /\ sub_event' = [sub_event EXCEPT ![run_id] = Len(loops) + 1]
            /\ sub_task' = [sub_task EXCEPT ![run_id] = Len(loops) + 1]
  /\ UNCHANGED <<unsub_calls, metrics, published, origin, mainVars>>

\* unsubscribe_from_run(run_id) up to its wait_for(task, 5.0): nothing when
\* run_id is not tracked; otherwise the registered Event is set and the task
\* is popped from _subscriptions.
UnsubscribeBegin(run_id) ==
  /\ IF sub_task[run_id] = 0
       THEN UNCHANGED <<loops, sub_task, unsub_calls>>
       ELSE /\ loops' = IF sub_event[run_id] # 0
                          THEN [loops EXCEPT ![sub_event[run_id]].stop = TRUE]
                          ELSE loops
            /\ sub_task' = [sub_task EXCEPT ![run_id] = 0]
            /\ unsub_calls' = unsub_calls \cup
                 {[run_id |-> run_id, task |-> sub_task[run_id]]}
  /\ UNCHANGED <<sub_event, metrics, published, origin, last_sub, mainVars>>

UnsubscribeEnd_LeavesLoop(call) ==
  /\ call \in unsub_calls
  /\ sub_event' = [sub_event EXCEPT ![call.run_id] = 0]
  /\ unsub_calls' = unsub_calls \ {call}
  /\ UNCHANGED <<loops, sub_task, metrics, published, origin, last_sub, mainVars>>

\* wait_for(task, 5.0) ends: the task has finished, or the timeout cancelled
\* it (CancelledError at recv_multipart passes `except Exception`; wait_for
\* returns once the task has ended).  Then `del self._stop_events[run_id]`
\* when the run id has an entry.
UnsubscribeEnd(call) ==
  /\ call \in unsub_calls
  /\ loops' = [loops EXCEPT ![call.task].pc = "done", ![call.task].inbox = <<>>]
  /\ sub_event' = [sub_event EXCEPT ![call.run_id] = 0]
  /\ unsub_calls' = unsub_calls \ {call}
  /\ UNCHANGED <<sub_task, metrics, published, origin, last_sub, mainVars>>

\* _subscribe_loop from its start to the first recv_multipart: socket
\* created, connected, topics subscribed.
SubLoopConnect(t) ==
  /\ loops[t].pc = "created"
  /\ loops' = [loops EXCEPT ![t] = WhileHead(@)]
  /\ UNCHANGED <<sub_task, sub_event, unsub_calls, metrics, published, origin, last_sub, mainVars>>

\* Creating or connecting the socket raised: the outer handler logs, `finally`
\* releases what was created, the task ends.
SubLoopConnectError(t) ==
  /\ loops[t].pc = "created"
  /\ loops' = [loops EXCEPT ![t].pc = "done"]
  /\ UNCHANGED <<sub_task, sub_event, unsub_calls, metrics, published, origin, last_sub, mainVars>>

\* recv_multipart returns the next message.  A message of two parts with a
\* JSON payload is stored by add_metric under the loop's run id; unpacking
\* another number of parts and json.loads of another payload raise, the inner
\* handler logs, nothing is stored.  Then the loop condition is read again.
SubLoopRecv_AbortOnBad(t) ==
  /\ loops[t].pc = "recv"
  /\ loops[t].inbox # <<>>
  /\ LET msg == Head(loops[t].inbox) IN
     /\ metrics' = IF msg.kind = "ok"
                     THEN [metrics EXCEPT ![loops[t].run_id] = Append(@, msg.id)]
                     ELSE metrics
     /\ loops' = IF msg.kind = "ok"
                   THEN [loops EXCEPT ![t] = WhileHead([@ EXCEPT !.inbox = Tail(@)])]
                   ELSE [loops EXCEPT ![t].pc = "done", ![t].inbox = <<>>,
                                      ![t].dropped = @ + 1]
  /\ UNCHANGED <<sub_task, sub_event, unsub_calls, published, origin, last_sub, mainVars>>

SubLoopRecv_Prepend(t) ==
  /\ loops[t].pc = "recv"
  /\ loops[t].inbox # <<>>
  /\ LET msg == Head(loops[t].inbox) IN
     /\ metrics' = IF msg.kind = "ok"
                     THEN [metrics EXCEPT ![loops[t].run_id] = <<msg.id>> \o @]
                     ELSE metrics
     /\ loops' = [loops EXCEPT ![t] = WhileHead(
                    [@ EXCEPT !.inbox = Tail(@),
                              !.dropped = IF msg.kind = "ok" THEN @ ELSE @ + 1])]
  /\ UNCHANGED <<sub_task, sub_event, unsub_calls, published, origin, last_sub, mainVars>>

SubLoopRecv(t) ==
  /\ loops[t].pc = "recv"
  /\ loops[t].inbox # <<>>
  /\ LET msg == Head(loops[t].inbox) IN
     /\ metrics' = IF msg.kind = "ok"
                     THEN [metrics EXCEPT ![loops[t].run_id] = Append(@, msg.id)]
                     ELSE metrics
     /\ loops' = [loops EXCEPT ![t] = WhileHead(
                    [@ EXCEPT !.inbox = Tail(@),
                              !.dropped = IF msg.kind = "ok" THEN @ ELSE @ + 1])]
  /\ UNCHANGED <<sub_task, sub_event, unsub_calls, published, origin, last_sub, mainVars>>

\* recv_multipart raises zmq.Again after RCVTIMEO with no message: `continue`,
\* and the loop condition finds the Event set.  (With the Event not set the
\* task is back at recv_multipart: no change.)
SubLoopAgain(t) ==
  /\ loops[t].pc = "recv"
  /\ loops[t].inbox = <<>>
  /\ loops[t].stop
  /\ loops' = [loops EXCEPT ![t] = WhileHead(@)]
  /\ UNCHANGED <<sub_task, sub_event, unsub_calls, metrics, published, origin, last_sub, mainVars>>

\* recv_multipart raises an error other than zmq.Again because the socket or
\* its connection has failed for good (it raises again on every later call):
\* the inner handler logs it and the loop condition is read again.
SubLoopRecvError_Ends(t) ==
  /\ loops[t].pc = "recv"
  /\ loops' = [loops EXCEPT ![t] =
       [@ EXCEPT !.broken = TRUE, !.inbox = <<>>, !.pc = "done"]]
  /\ UNCHANGED <<sub_task, sub_event, unsub_calls, metrics, published, origin,
                 last_sub, mainVars>>

SubLoopRecvError(t) ==
  /\ loops[t].pc = "recv"
  /\ loops' = [loops EXCEPT ![t] =
       WhileHead([@ EXCEPT !.broken = TRUE, !.inbox = <<>>])]
  /\ UNCHANGED <<sub_task, sub_event, unsub_calls, metrics, published, origin,
                 last_sub, mainVars>>

\* The port the process launched for run src publishes its metrics on: the
\* command it was launched with carries no port (BuildAiperfCommand), so it
\* is the tool's default for every run.
ProcessPort(src) == METRICS_PORT

\* The process launched for run src sends one message; each loop whose
\* socket is connected to the port it publishes on, and working, receives a
\* copy.  A loop's socket is connected to the port the controller passed to
\* subscribe_to_run for the loop's run.
Publish(kind, src) ==
  /\ published < MaxMsgs
  /\ published' = published + 1
  /\ origin' = Append(origin, src)
  /\ loops' = [t \in LoopIds |->
       IF /\ loops[t].pc = "recv"
          /\ ~loops[t].broken
          /\ ExecutePort(loops[t].run_id) = ProcessPort(src)
         THEN [loops[t] EXCEPT !.inbox =
                 Append(@, [id |-> published + 1, kind |-> kind])]
         ELSE loops[t]]
  /\ UNCHANGED <<sub_task, sub_event, unsub_calls, metrics, last_sub, mainVars>>

NextSub ==
  \/ \E r \in SubRunIds : SubscribeToRun(r)
  \/ \E r \in SubRunIds : UnsubscribeBegin(r)
  \/ \E call \in unsub_calls : UnsubscribeEnd(call)
  \/ \E t \in LoopIds : SubLoopConnect(t)
  \/ \E t \in LoopIds : SubLoopConnectError(t)
  \/ \E t \in LoopIds : SubLoopRecv(t)
  \/ \E t \in LoopIds : SubLoopAgain(t)
  \/ \E t \in LoopIds : SubLoopRecvError(t)
  \/ \E kind \in MessageKinds, src \in SubRunIds : Publish(kind, src)

SpecSub == Init /\ [][NextSub]_vars

\* The subscriber under the event loop's scheduling: a created loop task gets
\* to run, a receive ends (with a message, with zmq.Again after RCVTIMEO, or
\* with the error of a failed socket), wait_for(task, 5.0) ends.  Nothing is
\* assumed of the callers, of the publisher, or of a working socket failing.
FairnessSub ==
  /\ \A t \in 1..MaxLoops :
       /\ WF_vars(t \in LoopIds /\ (SubLoopConnect(t) \/ SubLoopConnectError(t)))
       /\ WF_vars(t \in LoopIds /\ SubLoopRecv(t))
       /\ WF_vars(t \in LoopIds /\ SubLoopAgain(t))
       /\ WF_vars(t \in LoopIds /\ loops[t].broken /\ SubLoopRecvError(t))
  /\ WF_vars(\E call \in unsub_calls : UnsubscribeEnd(call))

FairSpecSub == SpecSub /\ FairnessSub

\* --------------------------------------------- AIPerfExecutor on its own
\* The supervisor as any caller may drive it: start_run calls for any run id
\* at any time, with every process and its monitor task kept apart.  No
\* completion callback is passed.  The store holds a PENDING record for
\* every run id.
ctrlOnlyVars == <<ctrlVars, execVars, subVars, stopVars, allocVars, msVars,
                  cmdVars>>

InitExec ==
  /\ running = FALSE
  /\ profiles = [r \in ExecRunIds |->
                   [queue_name |-> "a", status |-> PENDING, error |-> NoError]]
  /\ queues = [l \in Lanes |-> <<>>]
  /\ queue_tasks = [l \in Lanes |-> NoTask]
  /\ processes = <<>>
  /\ monitor_tasks = <<>>
  /\ proc = [r \in RunIds |-> "none"]
  /\ monitor = [r \in RunIds |-> "none"]
  /\ subscriptions = <<>>
  /\ stop_events = {}
  /\ loop = [r \in RunIds |-> "none"]
  /\ stop_set = [r \in RunIds |-> FALSE]
  /\ sub_port = [r \in RunIds |-> 0]
  /\ cleanup = [r \in RunIds |-> "none"]
  /\ stop_pc = "idle"
  /\ stop_ids = <<>>
  /\ stop_called = FALSE
  /\ terminated = {}
  /\ started = [l \in Lanes |-> <<>>]
  /\ allocated_ports = {}
  /\ port_assignments = <<>>
  /\ alloc_raised = FALSE
  /\ alloc_calls = 0
  /\ last_call = NoCall
  /\ MsInit
  /\ ExInit
  /\ CmdInit

\* start_run(run_id, ...) up to its first suspension: ValueError when run_id
\* is in _processes; otherwise the command is built and the call waits in
\* create_subprocess_exec.
StartRun_Relaunch(run_id) ==
  /\ start_count < MaxStartCalls
  /\ start_count' = start_count + 1
  /\ start_calls' = [start_calls EXCEPT ![run_id] = @ + 1]
  /\ start_result' = [run_id |-> run_id, outcome |-> "waiting"]
  /\ UNCHANGED <<launched, exec_process, exec_monitor>>
  /\ UNCHANGED <<profiles, ctrlOnlyVars>>

StartRun(run_id) ==
  /\ start_count < MaxStartCalls
  /\ start_count' = start_count + 1
  /\ IF exec_process[run_id] # 0
       THEN /\ start_result' = [run_id |-> run_id, outcome |-> "rejected"]
            /\ UNCHANGED start_calls
       ELSE /\ start_calls' = [start_calls EXCEPT ![run_id] = @ + 1]
            /\ start_result' = [run_id |-> run_id, outcome |-> "waiting"]
  /\ UNCHANGED <<launched, exec_process, exec_monitor>>
  /\ UNCHANGED <<profiles, ctrlOnlyVars>>

\* create_subprocess_exec returned a process: it is tracked under run_id,
\* RUNNING is stored, the monitor task is created and tracked; start_run
\* returns.
StartLaunchOk(run_id) ==
  /\ start_calls[run_id] > 0
  /\ start_calls' = [start_calls EXCEPT ![run_id] = @ - 1]
  /\ launched' = Append(launched,
                        [run_id |-> run_id, state |-> "alive", mon |-> "wait"])
  /\ exec_process' = [exec_process EXCEPT ![run_id] = Len(launched) + 1]
  /\ profiles' = UpdateProfileStatus(profiles, run_id, RUNNING, NoError)
  /\ exec_monitor' = [exec_monitor EXCEPT ![run_id] = Len(launched) + 1]
  /\ start_result' = [run_id |-> run_id, outcome |-> "started"]
  /\ UNCHANGED <<start_count, ctrlOnlyVars>>

\* create_subprocess_exec raised: FAILED is stored with the exception text
\* and the exception is raised again.
StartLaunchFail(run_id) ==
  /\ start_calls[run_id] > 0
  /\ start_calls' = [start_calls EXCEPT ![run_id] = @ - 1]
  /\ profiles' = UpdateProfileStatus(profiles, run_id, FAILED, "launch error")
  /\ start_result' = [run_id |-> run_id, outcome |-> "failed"]
  /\ UNCHANGED <<launched, exec_process, exec_monitor, start_count, ctrlOnlyVars>>

\* A launched process exits with code 0 or with another code.
LaunchedExit(p, code) ==
  /\ launched[p].state = "alive"
  /\ launched' = [launched EXCEPT ![p].state = code]
  /\ UNCHANGED <<exec_process, exec_monitor, start_calls, start_count,
                 start_result, profiles, ctrlOnlyVars>>

\* _monitor_process of process p after wait() and communicate(): the status
\* is stored from the exit code, or FAILED by the handler when reading or
\* decoding the output raised; `finally` deletes whatever _processes and
\* _monitor_tasks hold under the run id.
LaunchedMonitorEnd(p, raised) ==
  /\ launched[p].mon = "wait"
  /\ launched[p].state # "alive"
  /\ LET run_id == launched[p].run_id IN
     /\ profiles' =
          IF raised
            THEN UpdateProfileStatus(profiles, run_id, FAILED, "monitor error")
            ELSE IF launched[p].state = "exit0"
                   THEN UpdateProfileStatus(profiles, run_id, COMPLETED, NoError)
                   ELSE UpdateProfileStatus(profiles, run_id, FAILED, "stderr")
     /\ exec_process' = [exec_process EXCEPT ![run_id] = 0]
     /\ exec_monitor' = [exec_monitor EXCEPT ![run_id] = 0]
  /\ launched' = [launched EXCEPT ![p].mon = "done"]
  /\ UNCHANGED <<start_calls, start_count, start_result, ctrlOnlyVars>>

NextExec ==
  \/ \E r \in ExecRunIds : StartRun(r)
  \/ \E r \in ExecRunIds : StartLaunchOk(r)
  \/ \E r \in ExecRunIds : StartLaunchFail(r)
  \/ \E p \in 1..Len(launched), c \in {"exit0", "exit1"} : LaunchedExit(p, c)
  \/ \E p \in 1..Len(launched), raised \in BOOLEAN : LaunchedMonitorEnd(p, raised)

SpecExec == InitExec /\ [][NextExec]_vars

\* ------------------------------------- _build_aiperf_command on its own
\* The command builder applied to one configuration and to the endpoints of
\* up to MaxBuilds starts.  A configuration holds any subset of the keys the
\* builder reads: text for the first five, a number for the last three.
NumericFields == {"request_count", "concurrency", "request_rate"}

Configs ==
  {[f \in Range(ConfigFields) |->
      IF f \in present
        THEN IF f \in NumericFields THEN <<7>> ELSE <<"v-" \o f>>
        ELSE <<>>] : present \in SUBSET Range(ConfigFields)}

ZmqHosts == {"127.0.0.1", "10.0.0.2"}

ZmqPorts == {METRICS_PORT, METRICS_PORT + 1}

\* str() of a small natural number.
Str(n) == <<"0", "1", "2", "3", "4", "5", "6", "7", "8", "9">>[n + 1]

\* The flag each configuration key is passed under.
Flag(f) ==
  CASE f = "model" -> "-m"
    [] f = "url" -> "--url"
    [] f = "endpoint_type" -> "--endpoint-type"
    [] f = "endpoint" -> "--custom-endpoint"
    [] f = "tokenizer" -> "--tokenizer"
    [] f = "request_count" -> "--request-count"
    [] f = "concurrency" -> "--concurrency"
    [] f = "request_rate" -> "--request-rate"

\* _build_aiperf_command(config, zmq_host, zmq_port): "aiperf profile", then
\* for every key whose value is not None its flag and value (numbers through
\* str()), then "--ui dashboard" and "--zmq-host" with the host.  zmq_port is
\* a parameter the body never reads.
BuildAiperfCommand(config, zmq_host, zmq_port) ==
  LET Arg(f) == IF config[f] # <<>>
                  THEN <<Flag(f), IF f \in NumericFields THEN Str(config[f][1])
                                                         ELSE config[f][1]>>
                  ELSE <<>>
  IN <<"aiperf", "profile">>
       \o Arg("model") \o Arg("url") \o Arg("endpoint_type") \o Arg("endpoint")
       \o Arg("tokenizer") \o Arg("request_count") \o Arg("concurrency")
       \o Arg("request_rate")
       \o <<"--ui", "dashboard">>
       \o <<"--zmq-host", zmq_host>>

InitCmd ==
  /\ running = FALSE
  /\ profiles = <<>>
  /\ queues = [l \in Lanes |-> <<>>]
  /\ queue_tasks = [l \in Lanes |-> NoTask]
  /\ processes = <<>>
  /\ monitor_tasks = <<>>
  /\ proc = [r \in RunIds |-> "none"]
  /\ monitor = [r \in RunIds |-> "none"]
  /\ subscriptions = <<>>
  /\ stop_events = {}
  /\ loop = [r \in RunIds |-> "none"]
  /\ stop_set = [r \in RunIds |-> FALSE]
  /\ sub_port = [r \in RunIds |-> 0]
  /\ cleanup = [r \in RunIds |-> "none"]
  /\ stop_pc = "idle"
  /\ stop_ids = <<>>
  /\ stop_called = FALSE
  /\ terminated = {}
  /\ started = [l \in Lanes |-> <<>>]
  /\ allocated_ports = {}
  /\ port_assignments = <<>>
  /\ alloc_raised = FALSE
  /\ alloc_calls = 0
  /\ last_call = NoCall
  /\ MsInit
  /\ ExInit
  /\ cmd_config \in Configs
  /\ cmd_calls = <<>>
  /\ cmd_built = <<>>

\* start_run's `cmd = self._build_aiperf_command(config, zmq_host, zmq_port)`.
BuildCommand(zmq_host, zmq_port) ==
  /\ Len(cmd_calls) < MaxBuilds
  /\ cmd_calls' = Append(cmd_calls, [zmq_host |-> zmq_host, zmq_port |-> zmq_port])
  /\ cmd_built' = Append(cmd_built,
                         BuildAiperfCommand(cmd_config, zmq_host, zmq_port))
  /\ UNCHANGED <<cmd_config, ctrlVars, dbVars, execVars, subVars, stopVars,
                 allocVars, msVars, exVars>>

NextCmd == \E zmq_host \in ZmqHosts, zmq_port \in ZmqPorts :
             BuildCommand(zmq_host, zmq_port)

SpecCmd == InitCmd /\ [][NextCmd]_vars

Next ==
  \/ Start
  \/ \E l \in Lanes : Submit(l)
  \/ \E l \in Lanes : WorkerStart(l)
  \/ \E l \in Lanes : WorkerGet(l)
  \/ \E l \in Lanes : WorkerLaunchOk(l)
  \/ \E l \in Lanes : WorkerLaunchFail(l)
  \/ \E l \in Lanes : WorkerPoll(l)
  \/ \E l \in Lanes : WorkerUnsubEnd(l)
  \/ \E l \in Lanes : WorkerCancelled(l)
  \/ \E r \in RunIds, c \in {"exit0", "exit1"} : ProcExit(r, c)
  \/ \E r \in RunIds : MonitorFinish(r)
  \/ \E r \in RunIds : MonitorError(r)
  \/ \E r \in RunIds : CleanupStart(r)
  \/ \E r \in RunIds : CleanupEnd(r)
  \/ \E r \in RunIds : LoopFatal(r)
  \/ \E r \in RunIds : LoopExit(r)
  \/ Stop

Spec == Init /\ [][Next]_vars

\* The same program under the scheduling the event loop gives: a task whose
\* wait is over is resumed.  A sleep(1.0) ends, wait_for(task, 5.0) ends by
\* its timeout at the latest, queue.get returns when the queue holds an item,
\* create_subprocess_exec returns or raises, a cancelled task receives its
\* CancelledError, a monitor whose process has exited goes on, a created
\* task gets its first step.  A process is only certain to exit once stop_run
\* has terminated it (kill() follows terminate() after ten seconds).  Nothing
\* is assumed of the callers of start, submit and stop, of a process nobody
\* stopped, or of a subscription loop whose stop event is not set.
Fairness ==
  /\ \A l \in Lanes :
       /\ WF_vars(WorkerStart(l))
       /\ WF_vars(WorkerGet(l))
       /\ WF_vars(WorkerLaunchOk(l) \/ WorkerLaunchFail(l))
       /\ WF_vars(WorkerPoll(l))
       /\ WF_vars(WorkerUnsubEnd(l))
       /\ WF_vars(WorkerCancelled(l))
  /\ \A r \in RunIds :
       /\ WF_vars(r \in terminated /\ \E c \in {"exit0", "exit1"} : ProcExit(r, c))
       /\ WF_vars(MonitorFinish(r) \/ MonitorError(r))
       /\ WF_vars(CleanupStart(r))
       /\ WF_vars(CleanupEnd(r))
       /\ WF_vars(LoopExit(r))
  /\ WF_vars(StopGathered)
  /\ WF_vars(StopRunEnd)
  /\ WF_vars(StopMonitorsGathered)
  /\ WF_vars(StopUnsubEnd)

FairSpec == Spec /\ Fairness

\* =================================================================
\* Properties
\* =================================================================
Status(r) == profiles[r].status

LaneOf(r) == profiles[r].queue_name

\* C1: in every reachable state, for every lane at most one run of the lane
\* has stored status RUNNING.
C1_OneRunningPerLane ==
  \A l \in Lanes :
    Cardinality({r \in DOMAIN profiles : LaneOf(r) = l /\ Status(r) = RUNNING}) <= 1

\* A lane's second run is RUNNING after its first run reached a terminal status.
C1_Witness ==
  \E r1, r2 \in DOMAIN profiles :
    /\ r1 # r2
    /\ LaneOf(r1) = LaneOf(r2)
    /\ Status(r1) \in Terminal
    /\ Status(r2) = RUNNING

\* C2: once a run's stored status is COMPLETED, FAILED or CANCELLED, no step
\* changes it to a different value.
C2_NoTransitionOutOfTerminal ==
  [][\A r \in DOMAIN profiles :
       Status(r) \in Terminal => profiles'[r].status = Status(r)]_vars

\* C3: every change of a run's stored status is PENDING -> RUNNING or
\* RUNNING -> COMPLETED, FAILED or CANCELLED.
C3_TransitionsFollowLifecycle ==
  [][\A r \in DOMAIN profiles :
       profiles'[r].status # Status(r) =>
         \/ Status(r) = PENDING /\ profiles'[r].status = RUNNING
         \/ Status(r) = RUNNING /\ profiles'[r].status \in Terminal]_vars

\* No task is left that could still act: stop() is not in progress, no worker,
\* monitor or cleanup task is alive.  Nothing changes a stored status from
\* such a state on.
Quiescent ==
  /\ stop_pc = "idle"
  /\ \A l \in Lanes : ~Live(queue_tasks[l])
  /\ \A r \in RunIds : monitor[r] # "wait" /\ cleanup[r] \notin {"created", "wait"}

\* C4: every run a lane worker has dequeued eventually has a terminal stored
\* status.  When every task has ended, "eventually" has run out: a dequeued run
\* must then already be terminal.
C4_DequeuedRunsConverge ==
  Quiescent =>
    \A l \in Lanes : \A r \in Range(started[l]) : Status(r) \in Terminal

\* Nothing of run r has been started: it was not dequeued, has no
\* subscription, no process, and is PENDING.
NotStarted(r) ==
  /\ r \notin Range(started[LaneOf(r)])
  /\ r \notin Range(subscriptions)
  /\ loop[r] = "none"
  /\ proc[r] = "none"
  /\ Status(r) = PENDING

\* C5: of two runs of one lane, the one submitted later is not started until
\* the earlier one has a terminal status, and a lane's runs are dequeued in
\* exactly the order they were submitted (run ids count submissions).
C5_PerLaneFIFO ==
  /\ \A r1, r2 \in DOMAIN profiles :
       (r1 < r2 /\ LaneOf(r1) = LaneOf(r2) /\ Status(r1) \notin Terminal)
         => NotStarted(r2)
  /\ \A l \in Lanes : \A i \in 1..Len(started[l]) :
       Cardinality({r \in DOMAIN profiles :
                      LaneOf(r) = l /\ r <= started[l][i]}) = i

\* Two runs of one lane have both been started, the second one is RUNNING.
C5_Witness ==
  \E l \in Lanes :
    /\ Len(started[l]) >= 2
    /\ Status(started[l][1]) \in Terminal
    /\ Status(started[l][2]) = RUNNING

OtherLaneRunning(l) ==
  \E r \in DOMAIN profiles : LaneOf(r) # l /\ Status(r) = RUNNING

\* C6: a run RUNNING in one lane does not block another lane's worker: while
\* some other lane has a RUNNING run, a worker waiting at its queue with a run
\* queued can dequeue it, and a worker launching a process can get it
\* launched and store RUNNING.
C6_LanesDoNotBlockEachOther ==
  \A l \in Lanes :
    (OtherLaneRunning(l) /\ ~queue_tasks[l].cancel) =>
      /\ (queue_tasks[l].pc = "get" /\ queues[l] # <<>>) => ENABLED WorkerGet(l)
      /\ queue_tasks[l].pc = "launch" => ENABLED WorkerLaunchOk(l)

\* Runs of two different lanes are RUNNING at the same time.
C6_Witness ==
  \E r1, r2 \in DOMAIN profiles :
    /\ LaneOf(r1) # LaneOf(r2)
    /\ Status(r1) = RUNNING
    /\ Status(r2) = RUNNING

\* A lane worker is executing run r (between dequeuing it and leaving
\* _execute_profile).
Executing(r) == \E l \in Lanes : queue_tasks[l].run = r

\* C7: two runs that are being executed at the same time have their metric
\* subscribers attached to different endpoints.
C7_ConcurrentRunsDisjointEndpoints ==
  \A r1, r2 \in RunIds :
    (r1 # r2 /\ Executing(r1) /\ Executing(r2)) => sub_port[r1] # sub_port[r2]

\* C8: every live allocation is a block of PORTS_PER_RUN consecutive numbers
\* inside [PORT_POOL_START, PORT_POOL_END), all marked allocated, and the
\* blocks of two live allocations share no number.
C8_AllocationsDisjoint ==
  /\ \A r \in DOMAIN port_assignments :
       /\ Block(port_assignments[r]) \subseteq PORT_POOL_START..(PORT_POOL_END - 1)
       /\ Cardinality(Block(port_assignments[r])) = PORTS_PER_RUN
       /\ Block(port_assignments[r]) \subseteq allocated_ports
  /\ \A r1, r2 \in DOMAIN port_assignments :
       r1 # r2 => Block(port_assignments[r1]) \cap Block(port_assignments[r2]) = {}

\* Two of the runs that allocate here hold blocks at the same time, after a
\* release has freed a block.
C8_Witness ==
  /\ \E r1, r2 \in AllocIds :
       r1 # r2 /\ r1 \in DOMAIN port_assignments /\ r2 \in DOMAIN port_assignments
  /\ \E r \in AllocIds : r \notin DOMAIN port_assignments
  /\ alloc_calls >= 3

\* C9: once stop() has been called, a submit creates no run record, appends
\* to no lane queue and starts no worker.
C9_SubmitAfterStopRejected ==
  [][stop_called =>
       /\ DOMAIN profiles' = DOMAIN profiles
       /\ \A l \in Lanes :
            /\ Len(queues'[l]) <= Len(queues[l])
            /\ queue_tasks[l].pc = "none" => queue_tasks'[l].pc = "none"]_vars

\* C10: whenever submit returns a run, the lane has a live worker that will
\* dequeue it (stated for the controller running, the case most favourable to
\* the claim).
C10_SubmitLeavesLiveWorker ==
  [][\A l \in Lanes :
       (running /\ Len(queues'[l]) > Len(queues[l])) => Live(queue_tasks'[l])]_vars

\* A step that creates a run record or lengthens a lane queue: a submit.
SubmitStep ==
  \/ DOMAIN profiles' # DOMAIN profiles
  \/ \E l \in Lanes : Len(queues'[l]) > Len(queues[l])

\* C11: a submit creates exactly one run record, under an id no run had, with
\* status PENDING, no error and the given lane; it appends the id once at the
\* tail of that lane's queue and touches no other record or queue; the new run
\* has not been started when submit returns.  Submit waits for nothing: it can
\* be taken in every state, whatever the lane's worker is doing.
C11_SubmitCreatesOneRun ==
  /\ [](\A l \in Lanes : Cardinality(DOMAIN profiles) < MaxRuns => ENABLED Submit(l))
  /\ [][SubmitStep =>
          \E id \in DOMAIN profiles' \ DOMAIN profiles :
            /\ DOMAIN profiles' = DOMAIN profiles \cup {id}
            /\ \A r \in DOMAIN profiles : profiles'[r] = profiles[r]
            /\ profiles'[id].status = PENDING
            /\ profiles'[id].error = NoError
            /\ \A l \in Lanes :
                 /\ id \notin Range(queues[l])
                 /\ id \notin Range(started'[l])
                 /\ queues'[l] = IF l = profiles'[id].queue_name
                                   THEN Append(queues[l], id) ELSE queues[l]
            /\ proc'[id] = "none"
            /\ loop'[id] = "none"]_vars

\* A second submit to a lane has returned while the lane's first run is
\* RUNNING: both records exist, the second is PENDING and queued.
C11_Witness ==
  \E r1, r2 \in DOMAIN profiles :
    /\ r1 # r2
    /\ LaneOf(r1) = LaneOf(r2)
    /\ Status(r1) = RUNNING
    /\ Status(r2) = PENDING
    /\ queues[LaneOf(r2)] = <<r2>>

\* stop_run(r) has sent terminate() to r's live process and has returned; r's
\* monitor task has not finished yet.
StopRunReturned(r) ==
  /\ r \in terminated
  /\ ~(stop_pc = "stop_wait" /\ Head(stop_ids) = r)

\* C12: when stop_run has stopped a run's live process and returned, and the
\* run's monitor task has finished, the run's stored status is CANCELLED:
\* whichever of the two finishes last leaves CANCELLED stored.
C12_StopYieldsCancelled ==
  [][\A r \in DOMAIN profiles :
       /\ (StopRunReturned(r) /\ monitor[r] = "wait" /\ monitor'[r] = "done")
            => profiles'[r].status = CANCELLED
       /\ (stop_pc = "stop_wait" /\ Head(stop_ids) = r /\ monitor[r] = "done"
           /\ ~(stop_pc' = "stop_wait" /\ stop_ids' = stop_ids))
            => profiles'[r].status = CANCELLED]_vars

\* C13: for a launched run on which stop was never called, the monitor stores
\* COMPLETED and leaves the error text empty when the process exited with
\* code 0, and stores FAILED with a non-empty error text when it exited with
\* another code.
C13_ExitCodeDecidesStatus ==
  [][\A r \in DOMAIN profiles :
       (monitor[r] = "wait" /\ monitor'[r] = "done" /\ ~stop_called) =>
          IF proc[r] = "exit0"
            THEN profiles'[r].status = COMPLETED /\ profiles'[r].error = NoError
            ELSE profiles'[r].status = FAILED /\ profiles'[r].error # NoError]_vars

\* C14: the completion callback of a launched run is invoked exactly once:
\* every end of the run's monitor task comes with one invocation (seen as the
\* creation of the run's _cleanup_profile task, which is all on_complete
\* does), and no invocation happens at any other step.
C14_CallbackExactlyOnce ==
  [][\A r \in RunIds :
       /\ (monitor[r] = "wait" /\ monitor'[r] = "done")
            => (cleanup[r] = "none" /\ cleanup'[r] = "created")
       /\ (cleanup[r] # "created" /\ cleanup'[r] = "created")
            => (monitor[r] = "wait" /\ monitor'[r] = "done")]_vars

\* Loop task t can still append a record for its run id: it is waiting in
\* recv_multipart (a message that arrives is stored before the loop condition
\* is read again), or it has not started and its Event is not set.
CanAppend(t) ==
  \/ loops[t].pc = "recv"
  \/ loops[t].pc = "created" /\ ~loops[t].stop

\* C15: at every instant at most one ingestion loop that can append records
\* exists for a run id, whatever the order and overlap of unsubscribe and
\* subscribe calls for it.
C15_NoDuplicateIngestion ==
  \A r \in SubRunIds :
    Cardinality({t \in LoopIds : loops[t].run_id = r /\ CanAppend(t)}) <= 1

\* The step is loop task t handling the message at the head of its socket's
\* queue (not a publish, not a call of subscribe or unsubscribe, not a
\* failure of the socket).
Handles(t) ==
  /\ loops[t].pc = "recv"
  /\ loops[t].inbox # <<>>
  /\ loops'[t] # loops[t]
  /\ loops'[t].stop = loops[t].stop
  /\ loops'[t].broken = loops[t].broken
  /\ unsub_calls' = unsub_calls
  /\ published' = published

\* C16: a malformed message (payload that does not parse, or not two parts)
\* appends no record, changes no run's status and does not end the loop (the
\* loop only ends after it when its stop signal is set); every well-formed
\* message a loop receives, also after malformed ones, is appended to the
\* records of the loop's run.
C16_MalformedMessageSkipped ==
  [][\A t \in LoopIds :
       Handles(t) =>
         LET msg == Head(loops[t].inbox)
             r == loops[t].run_id
         IN IF msg.kind = "ok"
              THEN metrics' = [metrics EXCEPT ![r] = Append(@, msg.id)]
              ELSE /\ metrics' = metrics
                   /\ profiles' = profiles
                   /\ loops'[t].pc = "done" => loops[t].stop]_vars

\* The only loop has skipped the first message published, a malformed one,
\* and stored the second.
C16_Witness ==
  /\ Len(loops) = 1
  /\ loops[1].dropped = 1
  /\ metrics[loops[1].run_id] = <<2>>

\* The bases of the blocks of PORTS_PER_RUN consecutive numbers inside the
\* pool [PORT_POOL_START, PORT_POOL_END) of which no number is in `allocated`.
FreeBlocks(allocated) ==
  {b \in PORT_POOL_START..(PORT_POOL_END - PORTS_PER_RUN) :
     Block(b) \cap allocated = {}}

\* The step is a call of allocate_ports.
AllocateStep == alloc_calls' = alloc_calls + 1

\* C17: allocate fails with the capacity error exactly when the pool holds no
\* free block of PORTS_PER_RUN consecutive numbers; it succeeds whenever one
\* exists, the last PORTS_PER_RUN numbers of the pool included.
C17_FailsOnlyWhenPoolExhausted ==
  [][AllocateStep => (alloc_raised' <=> FreeBlocks(allocated_ports) = {})]_vars

\* C18: allocate is first-fit: a call that succeeds gives the run the free
\* block with the lowest base and marks exactly its numbers; so when the call
\* before it was a release and the block that release freed is the
\* lowest-lying free block, it gives out exactly the numbers the release freed.
C18_FirstFit ==
  [][(AllocateStep /\ ~alloc_raised') =>
       LET base == Min(FreeBlocks(allocated_ports)) IN
       /\ last_call'.base = base
       /\ port_assignments'[last_call'.run_id] = base
       /\ allocated_ports' = allocated_ports \cup Block(base)
       /\ (last_call.op = "release" /\ last_call.base # NoPort
           /\ \A b \in FreeBlocks(allocated_ports) : b >= last_call.base)
            => /\ last_call'.reused
               /\ Block(port_assignments'[last_call'.run_id]) = Block(last_call.base)]_vars

\* A run has just been given the block that the call before, a release, had
\* freed, while another run holds a higher block.
C18_Witness ==
  /\ last_call.op = "allocate"
  /\ last_call.reused
  /\ \E r \in DOMAIN port_assignments : port_assignments[r] > last_call.base

\* C19: release for a run with a recorded allocation frees the numbers of that
\* allocation, removes the run's mapping and leaves every other run's mapping
\* and numbers as they were; release for a run id without a mapping (a second
\* release included) changes nothing.
C19_ReleaseFrame ==
  [][\A r \in AllocIds :
       (~AllocateStep /\ last_call'.op = "release" /\ last_call'.run_id = r) =>
          IF r \in DOMAIN port_assignments
            THEN /\ Block(port_assignments[r]) \cap allocated_ports' = {}
                 /\ allocated_ports' = allocated_ports \ Block(port_assignments[r])
                 /\ DOMAIN port_assignments' = DOMAIN port_assignments \ {r}
                 /\ \A o \in DOMAIN port_assignments' :
                      /\ port_assignments'[o] = port_assignments[o]
                      /\ Block(port_assignments[o]) \subseteq allocated_ports'
            ELSE /\ allocated_ports' = allocated_ports
                 /\ port_assignments' = port_assignments]_vars

\* A run's allocation has just been released while another of the runs holds
\* its block.
C19_Witness ==
  /\ last_call.op = "release"
  /\ last_call.base # NoPort
  /\ last_call.run_id \notin DOMAIN port_assignments
  /\ \E o \in AllocIds : o \in DOMAIN port_assignments

\* C20: when launching a run raises, the run's stored status becomes FAILED
\* with a non-empty error text at once, and by the time the lane's worker
\* dequeues its next run the failed run's subscription is released: it is not
\* tracked, its loop has ended and its stop event is unregistered.
C20_LaunchFailureReleased ==
  [][\A l \in Lanes :
       /\ (queue_tasks[l].pc = "launch" /\ ~queue_tasks[l].cancel
           /\ queue_tasks'[l].pc \notin {"launch", "poll"})
            => /\ profiles'[queue_tasks[l].run].status = FAILED
               /\ profiles'[queue_tasks[l].run].error # NoError
       /\ Len(started'[l]) > Len(started[l])
            => \A r \in Range(started[l]) :
                 proc[r] = "none" =>
                   /\ Status(r) = FAILED
                   /\ profiles[r].error # NoError
                   /\ r \notin Range(subscriptions)
                   /\ r \notin stop_events
                   /\ loop[r] = "done"]_vars

\* A lane's worker has dequeued its second run after the launch of the first
\* one failed.
C20_Witness ==
  \E l \in Lanes :
    /\ Len(started[l]) = 2
    /\ proc[started[l][1]] = "none"
    /\ Status(started[l][1]) = FAILED

\* C21: a lane worker never ends because of a run: a live worker's task only
\* ends by the cancellation stop() sends or by reading _running as False; a
\* dequeued run id without a record starts no subscriber and no process; and
\* with the controller running and not stopped, once the last run the worker
\* dequeued is FAILED (launch failure, non-zero exit) or has no record, a run
\* queued in the lane is eventually dequeued, unless stop() is called first.
C21_WorkerSurvivesRunFailure ==
  /\ [][\A l \in Lanes :
          /\ (Live(queue_tasks[l]) /\ ~Live(queue_tasks'[l]))
               => (queue_tasks[l].cancel \/ ~running)
          /\ (Len(started'[l]) > Len(started[l])
              /\ Head(queues[l]) \notin DOMAIN profiles)
               => /\ subscriptions' = subscriptions
                  /\ loop' = loop
                  /\ proc' = proc
                  /\ Live(queue_tasks'[l])]_vars
  /\ \A l \in Lanes : \A n \in RunIds :
       (/\ running
        /\ Live(queue_tasks[l])
        /\ ~queue_tasks[l].cancel
        /\ Len(started[l]) = n
        /\ IF started[l][n] \in DOMAIN profiles
             THEN Status(started[l][n]) = FAILED ELSE TRUE
        /\ queues[l] # <<>>)
         ~> (Len(started[l]) > n \/ stop_called)

\* A lane's worker has dequeued the lane's second run after the first one's
\* process exited with a non-zero code, and stop() was never called.
C21_Witness ==
  \E l \in Lanes :
    /\ Len(started[l]) = 2
    /\ proc[started[l][1]] = "gone"
    /\ Status(started[l][1]) = FAILED
    /\ profiles[started[l][1]].error = "stderr"
    /\ running
    /\ ~stop_called
    /\ Live(queue_tasks[l])

\* The step is the start of a start_run call for run id r.
StartRunCalled(r) ==
  /\ start_count' = start_count + 1
  /\ start_result'.run_id = r

\* C22: start_run for a run id that is tracked is rejected with an error and
\* changes nothing: no process is launched or about to be, the tracked process
\* and monitor of every run id are as they were, and no stored status changes.
C22_StartOfTrackedRejected ==
  [][\A r \in ExecRunIds :
       (StartRunCalled(r) /\ exec_process[r] # 0)
         => /\ start_result' = [run_id |-> r, outcome |-> "rejected"]
            /\ start_calls' = start_calls
            /\ launched' = launched
            /\ exec_process' = exec_process
            /\ exec_monitor' = exec_monitor
            /\ profiles' = profiles]_vars

\* A start_run call for a run whose process is alive and tracked has just
\* been rejected.
C22_Witness ==
  /\ start_result.outcome = "rejected"
  /\ exec_process[start_result.run_id] # 0
  /\ launched[exec_process[start_result.run_id]].state = "alive"
  /\ Status(start_result.run_id) = RUNNING

\* The step is the end of a start_run call for run id r that was waiting in
\* create_subprocess_exec.
StartRunEnded(r) ==
  /\ start_calls'[r] < start_calls[r]
  /\ start_result'.run_id = r

InExecCleanup == stop_pc \in {"stop_wait", "monitors"}

\* The step on which executor.cleanup() returns (stop() goes on to
\* stop_all(), or returns itself when nothing is subscribed).
ExecCleanupReturns ==
  /\ \/ InExecCleanup
     \/ stop_pc = "gather"
  /\ stop_pc' \in {"unsub_wait", "idle"}

\* C24: when cleanup() returns, no launched process is still alive (every run
\* that was tracked when it was called has been terminated or had exited), no
\* monitor task is unfinished, and _processes and _monitor_tasks are empty.
C24_CleanupLeavesNothing ==
  [][ExecCleanupReturns =>
       /\ processes' = <<>>
       /\ monitor_tasks' = <<>>
       /\ \A r \in RunIds : monitor'[r] # "wait" /\ proc'[r] # "alive"]_vars

\* cleanup() has returned after stopping two tracked runs: stop() is in
\* stop_all() and both runs went through stop_run to CANCELLED.
C24_Witness ==
  /\ stop_pc = "unsub_wait"
  /\ \A r \in RunIds :
       /\ r \in DOMAIN profiles
       /\ Status(r) = CANCELLED
       /\ monitor[r] = "done"
       /\ proc[r] = "gone"

\* The step on which ProfileController.stop() returns.
StopReturns ==
  /\ stop_pc' = "idle"
  /\ \/ stop_pc # "idle"
     \/ running /\ ~running'

\* C25: when stop() returns, no run has a tracked subscription and no
\* _subscribe_loop task is still running, also when a completion callback
\* created a _cleanup_profile task during the shutdown.
C25_StopLeavesNoSubscription ==
  [][StopReturns =>
       /\ subscriptions' = <<>>
       /\ \A r \in RunIds : loop'[r] # "run"]_vars

\* C26: stop() always terminates: from every state in which a stop() call is
\* in progress (waiting for the workers, for a stopped process, for the
\* monitors or for a subscription loop) it eventually returns, under fair
\* scheduling and given that a process stop_run terminated exits.
C26_StopTerminates ==
  (stop_pc # "idle") ~> (stop_pc = "idle")

\* stop() has returned after stopping runs that were executing in two lanes.
C26_Witness ==
  /\ stop_called
  /\ stop_pc = "idle"
  /\ \E r1, r2 \in DOMAIN profiles :
       /\ LaneOf(r1) # LaneOf(r2)
       /\ Status(r1) = CANCELLED
       /\ Status(r2) = CANCELLED

\* The step is a subscribe_to_run call for run id r (one that can be told
\* from doing nothing at all).
SubscribeStep(r) ==
  /\ last_sub'.run_id = r
  /\ \/ last_sub' # last_sub
     \/ Len(loops') > Len(loops)

\* C27: subscribe_to_run for a run id with a tracked subscription starts no
\* loop and leaves every tracked task and registered stop event as it was;
\* for a run id without one it creates exactly one loop task for that run id,
\* not yet started, with a new stop event that is not set, and registers the
\* task and the event under the run id.
C27_SubscribeIdempotent ==
  [][\A r \in SubRunIds :
       SubscribeStep(r) =>
         /\ last_sub'.tracked = (sub_task[r] # 0)
         /\ unsub_calls' = unsub_calls
         /\ metrics' = metrics
         /\ IF sub_task[r] # 0
              THEN /\ loops' = loops
                   /\ sub_task' = sub_task
                   /\ sub_event' = sub_event
              ELSE /\ loops' = Append(loops, loops'[Len(loops')])
                   /\ loops'[Len(loops')].run_id = r
                   /\ loops'[Len(loops')].pc = "created"
                   /\ ~loops'[Len(loops')].stop
                   /\ sub_task' = [sub_task EXCEPT ![r] = Len(loops')]
                   /\ sub_event' = [sub_event EXCEPT ![r] = Len(loops')]]_vars

\* The last subscribe_to_run call found its run id tracked and did nothing:
\* the run's only loop is the tracked one and is receiving.
C27_Witness ==
  /\ last_sub.tracked
  /\ Len(loops) = 1
  /\ sub_task[last_sub.run_id] = 1
  /\ sub_event[last_sub.run_id] = 1
  /\ loops[1].pc = "recv"

\* C28: when a lane's worker attaches the subscriber of its next run (the
\* step that dequeues it) or launches that run's process, no _subscribe_loop
\* of a run the lane launched earlier is still running.
C28_DetachedBeforeNextRun ==
  [][\A l \in Lanes :
       (\/ Len(started'[l]) > Len(started[l])
        \/ queue_tasks[l].pc = "launch" /\ queue_tasks'[l].pc = "poll")
         => \A r \in Range(started[l]) :
              (r # queue_tasks[l].run /\ proc[r] # "none") => loop'[r] # "run"]_vars

\* The step is loop task t's own (not a message arriving, not a call).
LoopTaskStep(t) ==
  /\ loops'[t] # loops[t]
  /\ loops'[t].stop = loops[t].stop
  /\ published' = published

\* C29: a loop whose stop event is set, that fails to connect, or whose
\* socket fails while receiving, ends (through `finally`, which closes the
\* socket and terminates the context).  After its stop event is set the loop
\* takes at most one more step (one message, or one receive timeout) and that
\* step ends it; a failed connect ends it at once; after a receive failure it
\* eventually ends.
C29_LoopEndsOnStopOrError ==
  /\ [][\A t \in LoopIds :
          (loops[t].stop /\ LoopTaskStep(t)) => loops'[t].pc = "done"]_vars
  /\ \A t \in 1..MaxLoops :
       /\ (t \in LoopIds /\ loops[t].stop)
            ~> (t \in LoopIds /\ loops[t].pc = "done")
       /\ (t \in LoopIds /\ loops[t].broken)
            ~> (t \in LoopIds /\ loops[t].pc = "done")

\* C30: metric records are append-only in receipt order: a step changes the
\* record list of at most one run, and only by appending one record at its
\* end, which happens exactly when a loop of that run handles a well-formed
\* message; the records already stored keep their place and content.
C30_MetricsAppendOnly ==
  [][\A r \in SubRunIds :
       /\ metrics'[r] # metrics[r] =>
            /\ \E t \in LoopIds :
                 /\ loops[t].run_id = r
                 /\ Handles(t)
                 /\ Head(loops[t].inbox).kind = "ok"
                 /\ metrics'[r] = Append(metrics[r], Head(loops[t].inbox).id)
            /\ \A o \in SubRunIds \ {r} : metrics'[o] = metrics[o]
       /\ Len(metrics'[r]) >= Len(metrics[r])
       /\ SubSeq(metrics'[r], 1, Len(metrics[r])) = metrics[r]]_vars

\* One run has two records, stored in the order its loop received them, and
\* another run has records of its own.
C30_Witness ==
  \E r, o \in SubRunIds :
    /\ r # o
    /\ metrics[r] = <<1, 2>>
    /\ metrics[o] # <<>>

\* C31: the argument list is a function of the configuration and the metric
\* endpoint only: two builds from equal inputs give equal lists, a
\* configuration key contributes its flag exactly when it has a value, and
\* two builds that differ in the endpoint's host or port give different lists.
C31_CommandCarriesEndpoint ==
  \A i, j \in 1..Len(cmd_built) :
    /\ cmd_calls[i] = cmd_calls[j] => cmd_built[i] = cmd_built[j]
    /\ \A f \in Range(ConfigFields) :
         (Flag(f) \in Range(cmd_built[i])) <=> (cmd_config[f] # <<>>)
    /\ cmd_calls[i] # cmd_calls[j] => cmd_built[i] # cmd_built[j]

\* C32: the numbers marked allocated are exactly the numbers of the blocks of
\* the recorded run-to-allocation mappings, after any sequence of allocate
\* and release calls (so releasing every recorded run empties the set).
C32_NoLeakedPorts ==
  allocated_ports =
    UNION {Block(port_assignments[r]) : r \in DOMAIN port_assignments}

\* C33: every record stored under run id r was published by the process
\* launched for r.
C33_MetricsAttributedToOwnRun ==
  \A r \in SubRunIds :
    \A i \in 1..Len(metrics[r]) : origin[metrics[r][i]] = r

\* C34: whenever no unsubscribe call for run id r is waiting (subscribe
\* never suspends), r has a tracked ingestion task exactly when r has a
\* registered stop signal, and the signal is the one the tracked task
\* observes.
C34_SubscriberTablesConsistent ==
  \A r \in SubRunIds :
    (\A call \in unsub_calls : call.run_id # r) =>
      /\ (sub_task[r] # 0) <=> (sub_event[r] # 0)
      /\ sub_task[r] # 0 => sub_event[r] = sub_task[r]

\* C35: a run has an error text only if its stored status is FAILED.
C35_ErrorOnlyWhenFailed ==
  \A r \in DOMAIN profiles :
    profiles[r].error # NoError => Status(r) = FAILED

\* C36: when stop() returns, no run has stored status RUNNING (a run that
\* has left PENDING never returns to it, so a run that was RUNNING when stop()
\* was called then has a terminal status) and no launched process is still
\* tracked.
C36_StopLeavesNoRunning ==
  [][/\ \A r \in DOMAIN profiles :
          Status(r) # PENDING => profiles'[r].status # PENDING
     /\ StopReturns =>
          /\ \A r \in DOMAIN profiles' : profiles'[r].status # RUNNING
          /\ processes' = <<>>]_vars

\* stop() has returned and a run it stopped is CANCELLED.
C36_Witness ==
  /\ stop_called
  /\ stop_pc = "idle"
  /\ processes = <<>>
  /\ \E r \in DOMAIN profiles : Status(r) = CANCELLED

\* C37: from the call of stop() until the next start(), no run changes to
\* RUNNING, no process is launched or tracked, and no worker dequeues a run.
C37_NothingStartsAfterStop ==
  [][stop_called =>
       /\ \A r \in DOMAIN profiles :
            Status(r) # RUNNING => profiles'[r].status # RUNNING
       /\ \A r \in RunIds : proc[r] = "none" => proc'[r] = "none"
       /\ Range(processes') \subseteq Range(processes)
       /\ started' = started
       /\ \A l \in Lanes : Len(queues'[l]) >= Len(queues[l])]_vars

\* stop() was called while a worker had dequeued a run and was waiting for
\* create_subprocess_exec; the worker has ended and the run is still PENDING
\* with no process.
C37_Witness ==
  /\ stop_called
  /\ \E l \in Lanes :
       /\ queue_tasks[l].pc = "done"
       /\ started[l] # <<>>
       /\ LET r == started[l][Len(started[l])] IN
            /\ r \in DOMAIN profiles
            /\ Status(r) = PENDING
            /\ proc[r] = "none"

\* The unsubscribe_from_run call that stopped loop t has returned: t is no
\* longer tracked and no call is waiting for it.
Unsubscribed(t) ==
  /\ sub_task[loops[t].run_id] # t
  /\ \A call \in unsub_calls : call.task # t

\* C38: once unsubscribe_from_run(r) has returned, the loop that was
\* subscribed takes no further step, and r's stored records do not change
\* while every loop created for r is in that case.
C38_NoRecordAfterUnsubscribe ==
  [][/\ \A t \in LoopIds : Unsubscribed(t) => loops'[t] = loops[t]
     /\ \A r \in SubRunIds :
          (/\ \E t \in LoopIds : loops[t].run_id = r
           /\ \A t \in LoopIds : loops[t].run_id = r => Unsubscribed(t))
          => metrics'[r] = metrics[r]]_vars

\* A loop stored one record, was unsubscribed, and a message published
\* afterwards was not stored.
C38_Witness ==
  \E t \in LoopIds :
    /\ Unsubscribed(t)
    /\ \A u \in LoopIds : loops[u].run_id = loops[t].run_id => u = t
    /\ metrics[loops[t].run_id] = <<1>>
    /\ origin = <<loops[t].run_id, loops[t].run_id>>

====
